---- MODULE Spec2Model ----
(***************************************************************************)
(* System Prompt Analyzer (src/app.py): the SystemPromptInfluenceAnalyzer  *)
(* dispatcher and the Streamlit script main() that drives it.              *)
(*                                                                         *)
(* Texts are sequences of one-character strings, so that rendering the     *)
(* analysis prompt is real concatenation and "occurs verbatim" is a real   *)
(* substring search.  Python values are tagged records (None, str, dict,   *)
(* UploadedFile) so that Python truthiness can be computed as Python does. *)
(* An exception is a result record with raised = TRUE.                     *)
(***************************************************************************)
EXTENDS Integers, Sequences, FiniteSets, TLC

VARIABLES
    provider,               \* main: value of the "Select Provider" selectbox
    model,                  \* main: value of the "Select Model" selectbox
    use_direct_input,       \* main: the checkbox
    system_prompt_text,     \* main: "Enter System Prompt" text area
    conversation_log_text,  \* main: "Enter Conversation Log" text area
    system_prompt_file,     \* main: first file uploader (None or UploadedFile)
    conversation_log_file,  \* main: second file uploader
    pc,                     \* position of the current script run / invocation
    args,                   \* <<>> or <<arguments of analyze_system_prompt_influence>>
    analysis_prompt,        \* the rendered prompt (local of the dispatcher)
    requests,               \* remote completion calls issued by this invocation
    remote,                 \* <<>> or <<what the remote call did>>
    reply,                  \* <<>> or <<result of analyze_with_anthropic / _openai>>
    outcome,                \* <<>> or <<result of analyze_system_prompt_influence>>
    messages,               \* st.warning / st.error reports of this run
    displayed               \* the "Analysis Results" section was rendered

uiVars == <<provider, model, use_direct_input, system_prompt_text, conversation_log_text,
            system_prompt_file, conversation_log_file>>
runVars == <<pc, args, analysis_prompt, requests, remote, reply, outcome, messages, displayed>>
vars == <<provider, model, use_direct_input, system_prompt_text, conversation_log_text,
          system_prompt_file, conversation_log_file,
          pc, args, analysis_prompt, requests, remote, reply, outcome, messages, displayed>>

(* ------------------------------- bounds ------------------------------- *)

(* longest input text handed directly to the dispatcher *)
MaxLen == 2
(* longest text carried by a remote response *)
MaxRespLen == 1
(* longest text typed into a text area *)
MaxUiLen == 1

StringsUpTo(A, n) == UNION {[1..k -> A] : k \in 0..n}

(* "a" occurs in the fixed template text, "#" does not *)
InputTexts == StringsUpTo({"a", "#"}, MaxLen)
RespTexts == StringsUpTo({"r"}, MaxRespLen)

(* ---------------------------- fixed texts ----------------------------- *)

(* src/app.py:80-88, the f-string up to {system_prompt} *)
TemplateHead ==
    <<"\n">>
    \o <<" ", " ", " ", " ", " ", " ", " ", " ", "Y", "o", "u", " ", "a", "r", "e", " ", "a", "n", " ", "e", "x", "p", "e", "r", "t", " ", "i", "n", " ", "s", "y", "s", "t", "e", "m", " ", "p", "r", "o", "m", "p", "t", " ", "i", "n", "t", "e", "r", "p", "r", "e", "t", "a", "b", "i", "l", "i", "t", "y", " ", "a", "n", "d", " ", "d", "i", "s", "c", "o", "u", "r", "s", "e", " ", "a", "n", "a", "l", "y", "s", "i", "s", ".", "\n">>
    \o <<"\n">>
    \o <<" ", " ", " ", " ", " ", " ", " ", " ", "T", "a", "s", "k", ":", " ", "C", "a", "r", "e", "f", "u", "l", "l", "y", " ", "a", "n", "a", "l", "y", "z", "e", " ", "t", "h", "e", " ", "f", "o", "l", "l", "o", "w", "i", "n", "g", " ", "s", "y", "s", "t", "e", "m", " ", "p", "r", "o", "m", "p", "t", " ", "a", "n", "d", " ", "c", "o", "n", "v", "e", "r", "s", "a", "t", "i", "o", "n", " ", "l", "o", "g", ".", "\n">>
    \o <<" ", " ", " ", " ", " ", " ", " ", " ", "I", "d", "e", "n", "t", "i", "f", "y", " ", "w", "h", "i", "c", "h", " ", "s", "p", "e", "c", "i", "f", "i", "c", " ", "s", "e", "g", "m", "e", "n", "t", "s", " ", "o", "f", " ", "t", "h", "e", " ", "s", "y", "s", "t", "e", "m", " ", "p", "r", "o", "m", "p", "t", " ", "d", "i", "r", "e", "c", "t", "l", "y", " ", "i", "n", "f", "l", "u", "e", "n", "c", "e", "d", "\n">>
    \o <<" ", " ", " ", " ", " ", " ", " ", " ", "t", "h", "e", " ", "a", "g", "e", "n", "t", "'", "s", " ", "r", "e", "s", "p", "o", "n", "s", "e", "s", ".", " ", "A", "l", "s", "o", ",", " ", "a", "n", "a", "l", "y", "z", "e", " ", "i", "f", " ", "a", "n", "y", " ", "p", "a", "r", "t", " ", "o", "f", " ", "t", "h", "e", " ", "u", "s", "e", "r", "'", "s", " ", "p", "r", "i", "o", "r", " ", "s", "t", "a", "t", "e", "m", "e", "n", "t", "s", "\n">>
    \o <<" ", " ", " ", " ", " ", " ", " ", " ", "i", "n", "f", "l", "u", "e", "n", "c", "e", "d", " ", "t", "h", "e", " ", "a", "g", "e", "n", "t", "'", "s", " ", "n", "e", "x", "t", " ", "o", "r", " ", "s", "u", "b", "s", "e", "q", "u", "e", "n", "t", " ", "r", "e", "s", "p", "o", "n", "s", "e", "s", ".", "\n">>
    \o <<"\n">>
    \o <<" ", " ", " ", " ", " ", " ", " ", " ", "S", "y", "s", "t", "e", "m", " ", "P", "r", "o", "m", "p", "t", ":", "\n">>
    \o <<" ", " ", " ", " ", " ", " ", " ", " ">>

(* src/app.py:89-92, between {system_prompt} and {conversation_log} *)
TemplateMid ==
    <<"\n">>
    \o <<"\n">>
    \o <<" ", " ", " ", " ", " ", " ", " ", " ", "C", "o", "n", "v", "e", "r", "s", "a", "t", "i", "o", "n", " ", "L", "o", "g", ":", "\n">>
    \o <<" ", " ", " ", " ", " ", " ", " ", " ">>

(* src/app.py:92-115, after {conversation_log} *)
TemplateTail ==
    <<"\n">>
    \o <<"\n">>
    \o <<" ", " ", " ", " ", " ", " ", " ", " ", "F", "o", "r", " ", "E", "A", "C", "H", " ", "a", "g", "e", "n", "t", " ", "r", "e", "s", "p", "o", "n", "s", "e", ",", " ", "p", "r", "o", "v", "i", "d", "e", ":", "\n">>
    \o <<" ", " ", " ", " ", " ", " ", " ", " ", "1", ".", " ", "T", "h", "e", " ", "A", "g", "e", "n", "t", "'", "s", " ", "R", "e", "s", "p", "o", "n", "s", "e", "\n">>
    \o <<" ", " ", " ", " ", " ", " ", " ", " ", "2", ".", " ", "R", "e", "l", "e", "v", "a", "n", "t", " ", "S", "y", "s", "t", "e", "m", " ", "P", "r", "o", "m", "p", "t", " ", "S", "e", "g", "m", "e", "n", "t", "s", " ", "(", "q", "u", "o", "t", "e", " ", "e", "x", "a", "c", "t", " ", "t", "e", "x", "t", ")", "\n">>
    \o <<" ", " ", " ", " ", " ", " ", " ", " ", "3", ".", " ", "I", "n", "f", "l", "u", "e", "n", "c", "e", " ", "S", "c", "o", "r", "e", " ", "(", "0", "-", "1", ".", "0", ")", "\n">>
    \o <<" ", " ", " ", " ", " ", " ", " ", " ", "4", ".", " ", "S", "p", "e", "c", "i", "f", "i", "c", " ", "E", "v", "i", "d", "e", "n", "c", "e", " ", "o", "f", " ", "I", "n", "f", "l", "u", "e", "n", "c", "e", "\n">>
    \o <<" ", " ", " ", " ", " ", " ", " ", " ", "5", ".", " ", "E", "x", "p", "l", "a", "n", "a", "t", "i", "o", "n", " ", "o", "f", " ", "S", "e", "m", "a", "n", "t", "i", "c", " ", "C", "o", "n", "n", "e", "c", "t", "i", "o", "n", "\n">>
    \o <<" ", " ", " ", " ", " ", " ", " ", " ", "6", ".", " ", "A", "n", "y", " ", "U", "s", "e", "r", " ", "S", "t", "a", "t", "e", "m", "e", "n", "t", "s", " ", "I", "n", "f", "l", "u", "e", "n", "c", "i", "n", "g", " ", "T", "h", "i", "s", " ", "R", "e", "s", "p", "o", "n", "s", "e", "\n">>
    \o <<"\n">>
    \o <<" ", " ", " ", " ", " ", " ", " ", " ", "R", "e", "s", "p", "o", "n", "s", "e", " ", "F", "o", "r", "m", "a", "t", ":", "\n">>
    \o <<" ", " ", " ", " ", " ", " ", " ", " ", "`", "`", "`", "\n">>
    \o <<" ", " ", " ", " ", " ", " ", " ", " ", "R", "e", "s", "p", "o", "n", "s", "e", " ", "1", ":", "\n">>
    \o <<" ", " ", " ", " ", " ", " ", " ", " ", "-", " ", "A", "g", "e", "n", "t", " ", "R", "e", "s", "p", "o", "n", "s", "e", ":", " ", "\"", ".", ".", ".", "\"", "\n">>
    \o <<" ", " ", " ", " ", " ", " ", " ", " ", "-", " ", "R", "e", "l", "e", "v", "a", "n", "t", " ", "S", "e", "g", "m", "e", "n", "t", "s", ":", " ", "[", "l", "i", "s", "t", " ", "o", "f", " ", "s", "e", "g", "m", "e", "n", "t", "s", "]", "\n">>
    \o <<" ", " ", " ", " ", " ", " ", " ", " ", "-", " ", "I", "n", "f", "l", "u", "e", "n", "c", "e", " ", "S", "c", "o", "r", "e", ":", " ", "X", ".", "X", "X", "\n">>
    \o <<" ", " ", " ", " ", " ", " ", " ", " ", "-", " ", "E", "v", "i", "d", "e", "n", "c", "e", ":", " ", "[", "d", "i", "r", "e", "c", "t", " ", "q", "u", "o", "t", "e", " ", "m", "a", "p", "p", "i", "n", "g", "]", "\n">>
    \o <<" ", " ", " ", " ", " ", " ", " ", " ", "-", " ", "E", "x", "p", "l", "a", "n", "a", "t", "i", "o", "n", ":", " ", "[", "s", "e", "m", "a", "n", "t", "i", "c", " ", "c", "o", "n", "n", "e", "c", "t", "i", "o", "n", " ", "d", "e", "t", "a", "i", "l", "s", "]", "\n">>
    \o <<" ", " ", " ", " ", " ", " ", " ", " ", "-", " ", "U", "s", "e", "r", " ", "I", "n", "f", "l", "u", "e", "n", "c", "e", ":", " ", "[", "u", "s", "e", "r", " ", "s", "t", "a", "t", "e", "m", "e", "n", "t", "(", "s", ")", " ", "i", "n", "f", "l", "u", "e", "n", "c", "i", "n", "g", " ", "r", "e", "s", "p", "o", "n", "s", "e", "]", "\n">>
    \o <<" ", " ", " ", " ", " ", " ", " ", " ", "`", "`", "`", "\n">>
    \o <<"\n">>
    \o <<" ", " ", " ", " ", " ", " ", " ", " ", "P", "r", "o", "v", "i", "d", "e", " ", "a", " ", "c", "o", "m", "p", "r", "e", "h", "e", "n", "s", "i", "v", "e", ",", " ", "a", "n", "a", "l", "y", "t", "i", "c", "a", "l", " ", "b", "r", "e", "a", "k", "d", "o", "w", "n", " ", "t", "h", "a", "t", " ", "s", "h", "o", "w", "s", "\n">>
    \o <<" ", " ", " ", " ", " ", " ", " ", " ", "h", "o", "w", " ", "t", "h", "e", " ", "s", "y", "s", "t", "e", "m", " ", "p", "r", "o", "m", "p", "t", " ", "a", "n", "d", " ", "u", "s", "e", "r", " ", "i", "n", "p", "u", "t", "s", " ", "g", "u", "i", "d", "e", " ", "t", "h", "e", " ", "a", "g", "e", "n", "t", "'", "s", " ", "c", "o", "m", "m", "u", "n", "i", "c", "a", "t", "i", "o", "n", " ", "s", "t", "r", "a", "t", "e", "g", "y", ".", "\n">>
    \o <<" ", " ", " ", " ", " ", " ", " ", " ">>

(* src/app.py:48, the fixed system-role instruction *)
OpenAISystemInstruction ==
    <<"Y", "o", "u", " ", "a", "r", "e", " ", "a", "n", " ", "e", "x", "p", "e", "r", "t", " ", "i", "n", " ", "a", "n", "a", "l", "y", "z", "i", "n", "g", " ", "A", "I", " ", "s", "y", "s", "t", "e", "m", " ", "p", "r", "o", "m", "p", "t", "s", " ", "a", "n", "d", " ", "t", "h", "e", "i", "r", " ", "i", "n", "f", "l", "u", "e", "n", "c", "e", " ", "o", "n", " ", "c", "o", "n", "v", "e", "r", "s", "a", "t", "i", "o", "n", "s", ".">>

(* src/app.py:167-186, default value of the system prompt text area *)
DefaultSystemPromptText ==
    <<"Y", "o", "u", " ", "a", "r", "e", " ", "a", " ", "h", "e", "l", "p", "f", "u", "l", " ", "A", "I", " ", "c", "u", "s", "t", "o", "m", "e", "r", " ", "s", "u", "p", "p", "o", "r", "t", " ", "a", "g", "e", "n", "t", " ", "f", "o", "r", " ", "T", "e", "c", "h", "G", "e", "a", "r", ",", " ", "a", " ", "c", "o", "n", "s", "u", "m", "e", "r", " ", "e", "l", "e", "c", "t", "r", "o", "n", "i", "c", "s", " ", "c", "o", "m", "p", "a", "n", "y", ".", " ", "Y", "o", "u", "r", " ", "p", "r", "i", "m", "a", "r", "y", " ", "g", "o", "a", "l", "s", " ", "a", "r", "e", " ", "t", "o", ":", "\n">>
    \o <<"\n">>
    \o <<"1", ".", " ", "B", "e", " ", "e", "m", "p", "a", "t", "h", "e", "t", "i", "c", " ", "a", "n", "d", " ", "p", "a", "t", "i", "e", "n", "t", " ", "w", "i", "t", "h", " ", "c", "u", "s", "t", "o", "m", "e", "r", "s", "\n">>
    \o <<"2", ".", " ", "P", "r", "o", "v", "i", "d", "e", " ", "c", "l", "e", "a", "r", ",", " ", "c", "o", "n", "c", "i", "s", "e", ",", " ", "a", "n", "d", " ", "a", "c", "c", "u", "r", "a", "t", "e", " ", "t", "e", "c", "h", "n", "i", "c", "a", "l", " ", "s", "u", "p", "p", "o", "r", "t", "\n">>
    \o <<"3", ".", " ", "T", "r", "o", "u", "b", "l", "e", "s", "h", "o", "o", "t", " ", "p", "r", "o", "d", "u", "c", "t", " ", "i", "s", "s", "u", "e", "s", " ", "s", "y", "s", "t", "e", "m", "a", "t", "i", "c", "a", "l", "l", "y", "\n">>
    \o <<"4", ".", " ", "E", "s", "c", "a", "l", "a", "t", "e", " ", "c", "o", "m", "p", "l", "e", "x", " ", "p", "r", "o", "b", "l", "e", "m", "s", " ", "w", "h", "e", "n", " ", "n", "e", "c", "e", "s", "s", "a", "r", "y", "\n">>
    \o <<"5", ".", " ", "M", "a", "i", "n", "t", "a", "i", "n", " ", "a", " ", "p", "r", "o", "f", "e", "s", "s", "i", "o", "n", "a", "l", " ", "a", "n", "d", " ", "f", "r", "i", "e", "n", "d", "l", "y", " ", "t", "o", "n", "e", "\n">>
    \o <<"6", ".", " ", "P", "r", "i", "o", "r", "i", "t", "i", "z", "e", " ", "c", "u", "s", "t", "o", "m", "e", "r", " ", "s", "a", "t", "i", "s", "f", "a", "c", "t", "i", "o", "n", " ", "a", "n", "d", " ", "p", "r", "o", "d", "u", "c", "t", " ", "u", "n", "d", "e", "r", "s", "t", "a", "n", "d", "i", "n", "g", "\n">>
    \o <<"\n">>
    \o <<"K", "e", "y", " ", "G", "u", "i", "d", "e", "l", "i", "n", "e", "s", ":", "\n">>
    \o <<"-", " ", "A", "l", "w", "a", "y", "s", " ", "s", "t", "a", "r", "t", " ", "b", "y", " ", "a", "c", "t", "i", "v", "e", "l", "y", " ", "l", "i", "s", "t", "e", "n", "i", "n", "g", " ", "t", "o", " ", "t", "h", "e", " ", "c", "u", "s", "t", "o", "m", "e", "r", "'", "s", " ", "s", "p", "e", "c", "i", "f", "i", "c", " ", "p", "r", "o", "b", "l", "e", "m", "\n">>
    \o <<"-", " ", "A", "s", "k", " ", "c", "l", "a", "r", "i", "f", "y", "i", "n", "g", " ", "q", "u", "e", "s", "t", "i", "o", "n", "s", " ", "t", "o", " ", "u", "n", "d", "e", "r", "s", "t", "a", "n", "d", " ", "t", "h", "e", " ", "i", "s", "s", "u", "e", " ", "c", "o", "m", "p", "l", "e", "t", "e", "l", "y", "\n">>
    \o <<"-", " ", "O", "f", "f", "e", "r", " ", "s", "t", "e", "p", "-", "b", "y", "-", "s", "t", "e", "p", " ", "t", "r", "o", "u", "b", "l", "e", "s", "h", "o", "o", "t", "i", "n", "g", " ", "g", "u", "i", "d", "a", "n", "c", "e", "\n">>
    \o <<"-", " ", "U", "s", "e", " ", "s", "i", "m", "p", "l", "e", ",", " ", "j", "a", "r", "g", "o", "n", "-", "f", "r", "e", "e", " ", "l", "a", "n", "g", "u", "a", "g", "e", "\n">>
    \o <<"-", " ", "I", "f", " ", "a", " ", "s", "o", "l", "u", "t", "i", "o", "n", " ", "i", "s", "n", "'", "t", " ", "i", "m", "m", "e", "d", "i", "a", "t", "e", "l", "y", " ", "a", "p", "p", "a", "r", "e", "n", "t", ",", " ", "s", "u", "g", "g", "e", "s", "t", " ", "c", "o", "n", "t", "a", "c", "t", "i", "n", "g", " ", "a", "d", "v", "a", "n", "c", "e", "d", " ", "s", "u", "p", "p", "o", "r", "t", "\n">>
    \o <<"-", " ", "N", "e", "v", "e", "r", " ", "b", "l", "a", "m", "e", " ", "t", "h", "e", " ", "c", "u", "s", "t", "o", "m", "e", "r", " ", "f", "o", "r", " ", "t", "e", "c", "h", "n", "i", "c", "a", "l", " ", "i", "s", "s", "u", "e", "s", "\n">>
    \o <<"\n">>
    \o <<"B", "e", "h", "a", "v", "i", "o", "r", "a", "l", " ", "C", "o", "n", "s", "t", "r", "a", "i", "n", "t", "s", ":", "\n">>
    \o <<"-", " ", "R", "e", "m", "a", "i", "n", " ", "c", "a", "l", "m", " ", "a", "n", "d", " ", "c", "o", "m", "p", "o", "s", "e", "d", "\n">>
    \o <<"-", " ", "D", "o", " ", "n", "o", "t", " ", "m", "a", "k", "e", " ", "p", "r", "o", "m", "i", "s", "e", "s", " ", "a", "b", "o", "u", "t", " ", "f", "u", "t", "u", "r", "e", " ", "p", "r", "o", "d", "u", "c", "t", " ", "f", "e", "a", "t", "u", "r", "e", "s", "\n">>
    \o <<"-", " ", "P", "r", "o", "t", "e", "c", "t", " ", "c", "u", "s", "t", "o", "m", "e", "r", " ", "p", "r", "i", "v", "a", "c", "y", "\n">>
    \o <<"-", " ", "A", "d", "m", "i", "t", " ", "w", "h", "e", "n", " ", "y", "o", "u", " ", "d", "o", "n", "'", "t", " ", "k", "n", "o", "w", " ", "s", "o", "m", "e", "t", "h", "i", "n", "g", "\n">>
    \o <<"-", " ", "O", "f", "f", "e", "r", " ", "a", "l", "t", "e", "r", "n", "a", "t", "i", "v", "e", " ", "s", "o", "l", "u", "t", "i", "o", "n", "s", " ", "w", "h", "e", "n", " ", "d", "i", "r", "e", "c", "t", " ", "r", "e", "s", "o", "l", "u", "t", "i", "o", "n", " ", "i", "s", "n", "'", "t", " ", "p", "o", "s", "s", "i", "b", "l", "e">>

(* src/app.py:191-211, default value of the conversation log text area *)
DefaultConversationLogText ==
    <<"C", "u", "s", "t", "o", "m", "e", "r", ":", " ", "H", "i", ",", " ", "I", "'", "m", " ", "h", "a", "v", "i", "n", "g", " ", "t", "r", "o", "u", "b", "l", "e", " ", "w", "i", "t", "h", " ", "m", "y", " ", "T", "e", "c", "h", "G", "e", "a", "r", " ", "X", "2", "0", "0", "0", " ", "w", "i", "r", "e", "l", "e", "s", "s", " ", "h", "e", "a", "d", "p", "h", "o", "n", "e", "s", ".", " ", "T", "h", "e", " ", "r", "i", "g", "h", "t", " ", "e", "a", "r", "b", "u", "d", " ", "s", "t", "o", "p", "p", "e", "d", " ", "w", "o", "r", "k", "i", "n", "g", " ", "c", "o", "m", "p", "l", "e", "t", "e", "l", "y", " ", "a", "f", "t", "e", "r", " ", "o", "n", "l", "y", " ", "t", "w", "o", " ", "m", "o", "n", "t", "h", "s", " ", "o", "f", " ", "u", "s", "e", ".", "\n">>
    \o <<"\n">>
    \o <<"A", "g", "e", "n", "t", ":", " ", "I", "'", "m", " ", "s", "o", "r", "r", "y", " ", "t", "o", " ", "h", "e", "a", "r", " ", "y", "o", "u", "'", "r", "e", " ", "e", "x", "p", "e", "r", "i", "e", "n", "c", "i", "n", "g", " ", "i", "s", "s", "u", "e", "s", " ", "w", "i", "t", "h", " ", "y", "o", "u", "r", " ", "X", "2", "0", "0", "0", " ", "w", "i", "r", "e", "l", "e", "s", "s", " ", "h", "e", "a", "d", "p", "h", "o", "n", "e", "s", ".", " ", "L", "e", "t", "'", "s", " ", "w", "o", "r", "k", " ", "t", "o", "g", "e", "t", "h", "e", "r", " ", "t", "o", " ", "d", "i", "a", "g", "n", "o", "s", "e", " ", "a", "n", "d", " ", "r", "e", "s", "o", "l", "v", "e", " ", "t", "h", "e", " ", "p", "r", "o", "b", "l", "e", "m", ".", " ", "C", "o", "u", "l", "d", " ", "y", "o", "u", " ", "t", "e", "l", "l", " ", "m", "e", " ", "a", " ", "b", "i", "t", " ", "m", "o", "r", "e", " ", "a", "b", "o", "u", "t", " ", "w", "h", "e", "n", " ", "a", "n", "d", " ", "h", "o", "w", " ", "t", "h", "e", " ", "r", "i", "g", "h", "t", " ", "e", "a", "r", "b", "u", "d", " ", "s", "t", "o", "p", "p", "e", "d", " ", "w", "o", "r", "k", "i", "n", "g", "?", " ", "H", "a", "v", "e", " ", "y", "o", "u", " ", "t", "r", "i", "e", "d", " ", "a", "n", "y", " ", "t", "r", "o", "u", "b", "l", "e", "s", "h", "o", "o", "t", "i", "n", "g", " ", "s", "t", "e", "p", "s", " ", "a", "l", "r", "e", "a", "d", "y", "?", "\n">>
    \o <<"\n">>
    \o <<"C", "u", "s", "t", "o", "m", "e", "r", ":", " ", "N", "o", ",", " ", "I", " ", "h", "a", "v", "e", "n", "'", "t", " ", "t", "r", "i", "e", "d", " ", "a", "n", "y", "t", "h", "i", "n", "g", " ", "y", "e", "t", ".", " ", "I", " ", "j", "u", "s", "t", " ", "n", "o", "t", "i", "c", "e", "d", " ", "o", "n", "e", " ", "d", "a", "y", " ", "t", "h", "a", "t", " ", "t", "h", "e", " ", "r", "i", "g", "h", "t", " ", "e", "a", "r", "b", "u", "d", " ", "d", "o", "e", "s", "n", "'", "t", " ", "p", "r", "o", "d", "u", "c", "e", " ", "a", "n", "y", " ", "s", "o", "u", "n", "d", " ", "a", "t", " ", "a", "l", "l", ".", " ", "I", "'", "v", "e", " ", "c", "h", "a", "r", "g", "e", "d", " ", "t", "h", "e", " ", "e", "a", "r", "b", "u", "d", "s", " ", "f", "u", "l", "l", "y", ",", " ", "b", "u", "t", " ", "n", "o", "t", "h", "i", "n", "g", " ", "c", "h", "a", "n", "g", "e", "s", ".", "\n">>
    \o <<"\n">>
    \o <<"A", "g", "e", "n", "t", ":", " ", "T", "h", "a", "n", "k", " ", "y", "o", "u", " ", "f", "o", "r", " ", "p", "r", "o", "v", "i", "d", "i", "n", "g", " ", "t", "h", "o", "s", "e", " ", "d", "e", "t", "a", "i", "l", "s", ".", " ", "I", " ", "u", "n", "d", "e", "r", "s", "t", "a", "n", "d", " ", "h", "o", "w", " ", "f", "r", "u", "s", "t", "r", "a", "t", "i", "n", "g", " ", "t", "h", "i", "s", " ", "m", "u", "s", "t", " ", "b", "e", ",", " ", "e", "s", "p", "e", "c", "i", "a", "l", "l", "y", " ", "s", "i", "n", "c", "e", " ", "t", "h", "e", " ", "h", "e", "a", "d", "p", "h", "o", "n", "e", "s", " ", "a", "r", "e", " ", "r", "e", "l", "a", "t", "i", "v", "e", "l", "y", " ", "n", "e", "w", ".", " ", "L", "e", "t", "'", "s", " ", "s", "y", "s", "t", "e", "m", "a", "t", "i", "c", "a", "l", "l", "y", " ", "t", "r", "o", "u", "b", "l", "e", "s", "h", "o", "o", "t", " ", "t", "h", "e", " ", "i", "s", "s", "u", "e", ":", "\n">>
    \o <<"\n">>
    \o <<"1", ".", " ", "F", "i", "r", "s", "t", ",", " ", "l", "e", "t", "'", "s", " ", "c", "o", "n", "f", "i", "r", "m", " ", "t", "h", "e", " ", "c", "h", "a", "r", "g", "i", "n", "g", " ", "s", "t", "a", "t", "u", "s", ":", "\n">>
    \o <<" ", " ", " ", "-", " ", "H", "a", "v", "e", " ", "y", "o", "u", " ", "c", "h", "e", "c", "k", "e", "d", " ", "t", "h", "e", " ", "b", "a", "t", "t", "e", "r", "y", " ", "l", "e", "v", "e", "l", "s", " ", "o", "n", " ", "b", "o", "t", "h", " ", "e", "a", "r", "b", "u", "d", "s", " ", "i", "n", " ", "t", "h", "e", " ", "T", "e", "c", "h", "G", "e", "a", "r", " ", "c", "o", "m", "p", "a", "n", "i", "o", "n", " ", "a", "p", "p", "?", "\n">>
    \o <<" ", " ", " ", "-", " ", "C", "a", "n", " ", "y", "o", "u", " ", "v", "e", "r", "i", "f", "y", " ", "t", "h", "a", "t", " ", "b", "o", "t", "h", " ", "e", "a", "r", "b", "u", "d", "s", " ", "a", "r", "e", " ", "s", "e", "a", "t", "e", "d", " ", "c", "o", "r", "r", "e", "c", "t", "l", "y", " ", "i", "n", " ", "t", "h", "e", " ", "c", "h", "a", "r", "g", "i", "n", "g", " ", "c", "a", "s", "e", "?", "\n">>
    \o <<"\n">>
    \o <<"2", ".", " ", "I", "'", "l", "l", " ", "a", "l", "s", "o", " ", "g", "u", "i", "d", "e", " ", "y", "o", "u", " ", "t", "h", "r", "o", "u", "g", "h", " ", "a", " ", "r", "e", "s", "e", "t", " ", "p", "r", "o", "c", "e", "s", "s", " ", "t", "h", "a", "t", " ", "o", "f", "t", "e", "n", " ", "r", "e", "s", "o", "l", "v", "e", "s", " ", "c", "o", "n", "n", "e", "c", "t", "i", "v", "i", "t", "y", " ", "i", "s", "s", "u", "e", "s", ":", "\n">>
    \o <<" ", " ", " ", "-", " ", "P", "l", "a", "c", "e", " ", "b", "o", "t", "h", " ", "e", "a", "r", "b", "u", "d", "s", " ", "i", "n", " ", "t", "h", "e", " ", "c", "h", "a", "r", "g", "i", "n", "g", " ", "c", "a", "s", "e", "\n">>
    \o <<" ", " ", " ", "-", " ", "P", "r", "e", "s", "s", " ", "a", "n", "d", " ", "h", "o", "l", "d", " ", "t", "h", "e", " ", "r", "e", "s", "e", "t", " ", "b", "u", "t", "t", "o", "n", " ", "f", "o", "r", " ", "1", "0", " ", "s", "e", "c", "o", "n", "d", "s", "\n">>
    \o <<" ", " ", " ", "-", " ", "R", "e", "m", "o", "v", "e", " ", "a", "n", "d", " ", "r", "e", "c", "o", "n", "n", "e", "c", "t", " ", "t", "h", "e", " ", "e", "a", "r", "b", "u", "d", "s", " ", "t", "o", " ", "y", "o", "u", "r", " ", "d", "e", "v", "i", "c", "e", "\n">>
    \o <<"\n">>
    \o <<"W", "o", "u", "l", "d", " ", "y", "o", "u", " ", "b", "e", " ", "w", "i", "l", "l", "i", "n", "g", " ", "t", "o", " ", "t", "r", "y", " ", "t", "h", "e", "s", "e", " ", "s", "t", "e", "p", "s", " ", "a", "n", "d", " ", "l", "e", "t", " ", "m", "e", " ", "k", "n", "o", "w", " ", "t", "h", "e", " ", "r", "e", "s", "u", "l", "t", "s", "?", "\n">>
    \o <<"\n">>
    \o <<"C", "u", "s", "t", "o", "m", "e", "r", ":", " ", "O", "k", "a", "y", ",", " ", "I", " ", "d", "i", "d", " ", "w", "h", "a", "t", " ", "y", "o", "u", " ", "s", "a", "i", "d", ".", " ", "T", "h", "e", " ", "r", "i", "g", "h", "t", " ", "e", "a", "r", "b", "u", "d", " ", "s", "t", "i", "l", "l", " ", "i", "s", "n", "'", "t", " ", "w", "o", "r", "k", "i", "n", "g", ".", " ", "W", "h", "a", "t", " ", "n", "o", "w", "?", "\n">>
    \o <<"\n">>
    \o <<"A", "g", "e", "n", "t", ":", " ", "I", " ", "a", "p", "p", "r", "e", "c", "i", "a", "t", "e", " ", "y", "o", "u", " ", "f", "o", "l", "l", "o", "w", "i", "n", "g", " ", "t", "h", "o", "s", "e", " ", "s", "t", "e", "p", "s", ".", " ", "S", "i", "n", "c", "e", " ", "t", "h", "e", " ", "b", "a", "s", "i", "c", " ", "t", "r", "o", "u", "b", "l", "e", "s", "h", "o", "o", "t", "i", "n", "g", " ", "d", "i", "d", "n", "'", "t", " ", "r", "e", "s", "o", "l", "v", "e", " ", "t", "h", "e", " ", "i", "s", "s", "u", "e", ",", " ", "t", "h", "i", "s", " ", "s", "u", "g", "g", "e", "s", "t", "s", " ", "a", " ", "p", "o", "t", "e", "n", "t", "i", "a", "l", " ", "h", "a", "r", "d", "w", "a", "r", "e", " ", "p", "r", "o", "b", "l", "e", "m", ".", " ", "G", "i", "v", "e", "n", " ", "t", "h", "a", "t", " ", "y", "o", "u", "r", " ", "p", "r", "o", "d", "u", "c", "t", " ", "i", "s", " ", "o", "n", "l", "y", " ", "t", "w", "o", " ", "m", "o", "n", "t", "h", "s", " ", "o", "l", "d", ",", " ", "t", "h", "i", "s", " ", "i", "s", " ", "l", "i", "k", "e", "l", "y", " ", "c", "o", "v", "e", "r", "e", "d", " ", "u", "n", "d", "e", "r", " ", "o", "u", "r", " ", "w", "a", "r", "r", "a", "n", "t", "y", ".", "\n">>
    \o <<"\n">>
    \o <<"H", "e", "r", "e", " ", "a", "r", "e", " ", "t", "h", "e", " ", "n", "e", "x", "t", " ", "s", "t", "e", "p", "s", " ", "I", " ", "r", "e", "c", "o", "m", "m", "e", "n", "d", ":", "\n">>
    \o <<"1", ".", " ", "W", "e", " ", "c", "a", "n", " ", "i", "n", "i", "t", "i", "a", "t", "e", " ", "a", " ", "w", "a", "r", "r", "a", "n", "t", "y", " ", "r", "e", "p", "l", "a", "c", "e", "m", "e", "n", "t", " ", "f", "o", "r", " ", "y", "o", "u", "r", " ", "d", "e", "f", "e", "c", "t", "i", "v", "e", " ", "e", "a", "r", "b", "u", "d", "\n">>
    \o <<"2", ".", " ", "I", "'", "l", "l", " ", "h", "e", "l", "p", " ", "y", "o", "u", " ", "f", "i", "l", "e", " ", "a", " ", "s", "u", "p", "p", "o", "r", "t", " ", "t", "i", "c", "k", "e", "t", " ", "t", "o", " ", "p", "r", "o", "c", "e", "s", "s", " ", "t", "h", "i", "s", " ", "q", "u", "i", "c", "k", "l", "y", "\n">>
    \o <<"3", ".", " ", "Y", "o", "u", " ", "s", "h", "o", "u", "l", "d", " ", "r", "e", "c", "e", "i", "v", "e", " ", "a", " ", "r", "e", "p", "l", "a", "c", "e", "m", "e", "n", "t", " ", "w", "i", "t", "h", "i", "n", " ", "7", "-", "1", "0", " ", "b", "u", "s", "i", "n", "e", "s", "s", " ", "d", "a", "y", "s", "\n">>
    \o <<"\n">>
    \o <<"M", "a", "y", " ", "I", " ", "h", "a", "v", "e", " ", "y", "o", "u", "r", " ", "o", "r", "d", "e", "r", " ", "n", "u", "m", "b", "e", "r", " ", "o", "r", " ", "t", "h", "e", " ", "s", "e", "r", "i", "a", "l", " ", "n", "u", "m", "b", "e", "r", " ", "o", "f", " ", "t", "h", "e", " ", "h", "e", "a", "d", "p", "h", "o", "n", "e", "s", " ", "t", "o", " ", "s", "t", "a", "r", "t", " ", "t", "h", "i", "s", " ", "p", "r", "o", "c", "e", "s", "s", "?", "\n">>
    \o <<"\n">>
    \o <<"C", "u", "s", "t", "o", "m", "e", "r", ":", " ", "T", "h", "e", " ", "o", "r", "d", "e", "r", " ", "n", "u", "m", "b", "e", "r", " ", "i", "s", " ", "T", "G", "-", "X", "2", "0", "0", "0", "-", "2", "3", "4", "5", "6", ".", "\n">>
    \o <<"\n">>
    \o <<"A", "g", "e", "n", "t", ":", " ", "T", "h", "a", "n", "k", " ", "y", "o", "u", " ", "f", "o", "r", " ", "p", "r", "o", "v", "i", "d", "i", "n", "g", " ", "t", "h", "e", " ", "o", "r", "d", "e", "r", " ", "n", "u", "m", "b", "e", "r", ".", " ", "I", "'", "v", "e", " ", "v", "e", "r", "i", "f", "i", "e", "d", " ", "y", "o", "u", "r", " ", "w", "a", "r", "r", "a", "n", "t", "y", " ", "s", "t", "a", "t", "u", "s", ",", " ", "a", "n", "d", ".", ".", ".">>

(* -------------------------- Python values ----------------------------- *)

None == [t |-> "None"]
Str(s) == [t |-> "str", s |-> s]
UploadedFile(b) == [t |-> "UploadedFile", bytes |-> b]
Dict(analysis, m) == [t |-> "dict", raw_analysis |-> analysis, model_used |-> m]

(* bool(v): None and "" are falsy; a str with characters, a dict with keys and
   an UploadedFile (a BytesIO, which defines neither __bool__ nor __len__) are truthy *)
Truthy(v) ==
    CASE v.t = "None" -> FALSE
      [] v.t = "str" -> v.s # <<>>
      [] v.t = "dict" -> TRUE
      [] v.t = "UploadedFile" -> TRUE

Returned(v) == [raised |-> FALSE, value |-> v]
Raised == [raised |-> TRUE]

Range(s) == {s[i] : i \in DOMAIN s}

Error(origin) == [level |-> "error", origin |-> origin]
Warning(origin) == [level |-> "warning", origin |-> origin]

(* number of positions of hay at which needle occurs *)
Occurrences(needle, hay) ==
    Cardinality({i \in 1..(Len(hay) - Len(needle) + 1) :
                    SubSeq(hay, i, i + Len(needle) - 1) = needle})

(* ------------------------- provider registry -------------------------- *)

model_providers ==
    [p \in {"Anthropic", "OpenAI"} |->
        IF p = "Anthropic"
        THEN << <<"claude-3-opus-20240229", "Claude 3 Opus">>,
                <<"claude-3-sonnet-20240229", "Claude 3 Sonnet">>,
                <<"claude-3-haiku-20240307", "Claude 3 Haiku">> >>
        ELSE << <<"gpt-4-0125-preview", "GPT-4 Turbo">>,
                <<"gpt-4", "GPT-4">>,
                <<"gpt-3.5-turbo", "GPT-3.5 Turbo">>,
                <<"gpt-4o", "GPT-4o">>,
                <<"gpt-4o-mini", "GPT-4o-Mini">> >>]

(* list(analyzer.model_providers.keys()), in insertion order *)
ProviderKeys == <<"Anthropic", "OpenAI">>

(* list(analyzer.model_providers[p].keys()) *)
ModelKeys(p) == [i \in 1..Len(model_providers[p]) |-> model_providers[p][i][1]]

(* analyzer.model_providers[p][m]; a missing key raises KeyError *)
DisplayName(p, m) ==
    IF p \in DOMAIN model_providers /\ m \in Range(ModelKeys(p))
    THEN Returned((CHOOSE e \in Range(model_providers[p]) : e[1] = m)[2])
    ELSE Raised

(* ------------------------- remote call shapes ------------------------- *)

MaxTokens == 4000
(* temperature=0.2, kept in tenths *)
TemperatureTenths == 2

AnthropicRequest(prompt, m) ==
    [client |-> "anthropic",
     model |-> m,
     max_tokens |-> MaxTokens,
     messages |-> <<[role |-> "user", content |-> prompt]>>]

(* the system instruction folded into the single user message *)
OpenAIRequest_single_message(prompt, m) ==
    [client |-> "openai",
     model |-> m,
     messages |-> <<[role |-> "user", content |-> OpenAISystemInstruction \o prompt]>>,
     max_tokens |-> MaxTokens,
     temperature |-> TemperatureTenths]

OpenAIRequest(prompt, m) ==
    [client |-> "openai",
     model |-> m,
     messages |-> <<[role |-> "system", content |-> OpenAISystemInstruction],
                    [role |-> "user", content |-> prompt]>>,
     max_tokens |-> MaxTokens,
     temperature |-> TemperatureTenths]

(* what a remote completion call can do: raise, or return a response.  An
   Anthropic response holds a list of text blocks, an OpenAI response a list
   of choices whose message content is a str or None. *)
ContentLists(items) ==
    {<<>>} \cup {<<b>> : b \in items} \cup {<<b, b>> : b \in items}

AnthropicOutcomes ==
    {[raises |-> TRUE]} \cup
    {[raises |-> FALSE, content |-> c] :
        c \in ContentLists({[text |-> Str(t)] : t \in RespTexts})}

OpenAIOutcomes ==
    {[raises |-> TRUE]} \cup
    {[raises |-> FALSE, choices |-> c] :
        c \in ContentLists({[message |-> [content |-> v]] :
                                v \in {None} \cup {Str(t) : t \in RespTexts}})}

(* a handler that hands the error text back as if it were the analysis *)
analyze_with_anthropic_error_as_text(o, m) ==
    IF o.raises \/ Len(o.content) = 0
    THEN [raised |-> FALSE, value |-> <<Str(<<"e">>), Str(m)>>,
          messages |-> <<Error("Anthropic API")>>]
    ELSE [raised |-> FALSE, value |-> <<o.content[1].text, Str(m)>>, messages |-> <<>>]

(* analyze_with_anthropic, from the client call's outcome on *)
analyze_with_anthropic(o, m) ==
    LET attempt ==
            IF o.raises THEN Raised
            ELSE IF Len(o.content) = 0 THEN Raised      \* content[0]: IndexError
            ELSE Returned(<<o.content[1].text, Str(m)>>)
    IN  IF attempt.raised
        THEN [raised |-> FALSE, value |-> <<None, None>>,
              messages |-> <<Error("Anthropic API")>>]
        ELSE [raised |-> FALSE, value |-> attempt.value, messages |-> <<>>]

(* a success path that forgets to hand the model id back *)
analyze_with_openai_without_model(o, m) ==
    IF o.raises \/ Len(o.choices) = 0
    THEN [raised |-> FALSE, value |-> <<None, None>>,
          messages |-> <<Error("OpenAI API")>>]
    ELSE [raised |-> FALSE, value |-> <<o.choices[1].message.content, None>>,
          messages |-> <<>>]

(* analyze_with_openai, from the client call's outcome on *)
analyze_with_openai(o, m) ==
    LET attempt ==
            IF o.raises THEN Raised
            ELSE IF Len(o.choices) = 0 THEN Raised      \* choices[0]: IndexError
            ELSE Returned(<<o.choices[1].message.content, Str(m)>>)
    IN  IF attempt.raised
        THEN [raised |-> FALSE, value |-> <<None, None>>,
              messages |-> <<Error("OpenAI API")>>]
        ELSE [raised |-> FALSE, value |-> attempt.value, messages |-> <<>>]

(* -------------------------- the dispatcher ---------------------------- *)

(* a template that lost its {conversation_log} field *)
Render_without_log(system_prompt, conversation_log) ==
    TemplateHead \o system_prompt \o TemplateMid \o TemplateTail

(* the f-string of analyze_system_prompt_influence *)
Render(system_prompt, conversation_log) ==
    TemplateHead \o system_prompt \o TemplateMid \o conversation_log \o TemplateTail

(* a comparison that ignores case *)
Route_ignoring_case(selected_provider) ==
    IF selected_provider \in {"Anthropic", "anthropic"} THEN "anthropic" ELSE "openai"

(* if selected_provider == "Anthropic": ... else: ... *)
Route(selected_provider) ==
    IF selected_provider = "Anthropic" THEN "anthropic" ELSE "openai"

(* two independent ifs instead of if/else: both providers are called *)
RequestsIssued_to_both(selected_provider, prompt, selected_model) ==
    <<AnthropicRequest(prompt, selected_model), OpenAIRequest(prompt, selected_model)>>

(* the remote calls one dispatch issues *)
RequestsIssued(selected_provider, prompt, selected_model) ==
    IF Route(selected_provider) = "anthropic"
    THEN <<AnthropicRequest(prompt, selected_model)>>
    ELSE <<OpenAIRequest(prompt, selected_model)>>

RemoteOutcomes(selected_provider) ==
    IF Route(selected_provider) = "anthropic" THEN AnthropicOutcomes ELSE OpenAIOutcomes

ProviderReply(selected_provider, o, selected_model) ==
    IF Route(selected_provider) = "anthropic"
    THEN analyze_with_anthropic(o, selected_model)
    ELSE analyze_with_openai(o, selected_model)

(* the tail of analyze_system_prompt_influence: "if analysis: return {...}",
   "return None", and the outer except *)
AnalysisResult(r) ==
    IF r.raised
    THEN [raised |-> FALSE, value |-> None, messages |-> <<Error("analysis")>>]
    ELSE IF Truthy(r.value[1])
         THEN [raised |-> FALSE, value |-> Dict(r.value[1], r.value[2]), messages |-> <<>>]
         ELSE [raised |-> FALSE, value |-> None, messages |-> <<>>]

(* ------------------------------ main() -------------------------------- *)

(* a selectbox that keeps a selection its options no longer hold *)
selectbox_keeping_stale(options, current) == current

(* st.sidebar.selectbox: the value is one of the options; a selection that is
   not among the options any more falls back to the first option *)
selectbox(options, current) ==
    IF current \in Range(options) THEN current ELSE options[1]

UiTexts ==
    StringsUpTo({"a"}, MaxUiLen) \cup {DefaultSystemPromptText, DefaultConversationLogText}

(* uploaded bytes: empty, the ASCII letter a, the lone byte 0xFF *)
FileContents == {<<>>, <<97>>, <<255>>}

(* bytes.decode('utf-8') on 7-bit bytes and 0xFF, which no UTF-8 text contains *)
Utf8Decode(bytes) ==
    IF \E i \in DOMAIN bytes : bytes[i] > 127
    THEN Raised
    ELSE Returned([i \in 1..Len(bytes) |-> IF bytes[i] = 97 THEN "a" ELSE "?"])

(* the button handler up to the call of the dispatcher: the texts to analyse,
   or the report that ends the run *)
ButtonInputs ==
    IF use_direct_input
    THEN IF ~Truthy(Str(system_prompt_text)) \/ ~Truthy(Str(conversation_log_text))
         THEN [go |-> FALSE, message |-> Warning("direct input")]
         ELSE [go |-> TRUE, system_prompt |-> system_prompt_text,
               conversation_log |-> conversation_log_text]
    ELSE IF ~Truthy(system_prompt_file) \/ ~Truthy(conversation_log_file)
         THEN [go |-> FALSE, message |-> Warning("file upload")]
         ELSE LET sp == Utf8Decode(system_prompt_file.bytes)
                  cl == Utf8Decode(conversation_log_file.bytes)
              IN  IF sp.raised \/ cl.raised
                  THEN [go |-> FALSE, message |-> Error("reading files")]
                  ELSE [go |-> TRUE, system_prompt |-> sp.value,
                        conversation_log |-> cl.value]

(* ------------------------------ actions ------------------------------- *)

(* nothing of an earlier run is left, except what the new run reports *)
ClearRun ==
    /\ args' = <<>>
    /\ analysis_prompt' = <<>>
    /\ requests' = <<>>
    /\ remote' = <<>>
    /\ reply' = <<>>
    /\ outcome' = <<>>
    /\ displayed' = FALSE

Init ==
    /\ provider = selectbox(ProviderKeys, ProviderKeys[1])
    /\ model = selectbox(ModelKeys(provider), ModelKeys(provider)[1])
    /\ use_direct_input = FALSE
    /\ system_prompt_text = DefaultSystemPromptText
    /\ conversation_log_text = DefaultConversationLogText
    /\ system_prompt_file = None
    /\ conversation_log_file = None
    /\ pc = "idle"
    /\ args = <<>>
    /\ analysis_prompt = <<>>
    /\ requests = <<>>
    /\ remote = <<>>
    /\ reply = <<>>
    /\ outcome = <<>>
    /\ messages = <<>>
    /\ displayed = FALSE

(* a widget interaction reruns the script without the button pressed: the
   previous run's output is gone *)
Rerun ==
    /\ pc \in {"idle", "done"}
    /\ pc' = "idle"
    /\ ClearRun
    /\ messages' = <<>>

SelectProvider(p) ==
    /\ Rerun
    /\ provider' = p
    /\ model' = selectbox(ModelKeys(p), model)
    /\ UNCHANGED <<use_direct_input, system_prompt_text, conversation_log_text,
                   system_prompt_file, conversation_log_file>>

SelectModel(m) ==
    /\ Rerun
    /\ model' = m
    /\ UNCHANGED <<provider, use_direct_input, system_prompt_text, conversation_log_text,
                   system_prompt_file, conversation_log_file>>

(* the text areas exist only while the box is checked and start from their
   default values *)
ToggleDirectInput ==
    /\ Rerun
    /\ use_direct_input' = ~use_direct_input
    /\ system_prompt_text' = DefaultSystemPromptText
    /\ conversation_log_text' = DefaultConversationLogText
    /\ UNCHANGED <<provider, model, system_prompt_file, conversation_log_file>>

EnterSystemPrompt(text) ==
    /\ use_direct_input
    /\ Rerun
    /\ system_prompt_text' = text
    /\ UNCHANGED <<provider, model, use_direct_input, conversation_log_text,
                   system_prompt_file, conversation_log_file>>

EnterConversationLog(text) ==
    /\ use_direct_input
    /\ Rerun
    /\ conversation_log_text' = text
    /\ UNCHANGED <<provider, model, use_direct_input, system_prompt_text,
                   system_prompt_file, conversation_log_file>>

UploadSystemPromptFile(f) ==
    /\ Rerun
    /\ system_prompt_file' = f
    /\ UNCHANGED <<provider, model, use_direct_input, system_prompt_text,
                   conversation_log_text, conversation_log_file>>

UploadConversationLogFile(f) ==
    /\ Rerun
    /\ conversation_log_file' = f
    /\ UNCHANGED <<provider, model, use_direct_input, system_prompt_text,
                   conversation_log_text, system_prompt_file>>

(* analyze_system_prompt_influence is entered: the prompt is rendered *)
Enter(system_prompt, conversation_log, selected_provider, selected_model) ==
    /\ args' = <<[system_prompt |-> system_prompt,
                  conversation_log |-> conversation_log,
                  selected_provider |-> selected_provider,
                  selected_model |-> selected_model]>>
    /\ analysis_prompt' = Render(system_prompt, conversation_log)
    /\ requests' = <<>>
    /\ remote' = <<>>
    /\ reply' = <<>>
    /\ outcome' = <<>>
    /\ displayed' = FALSE
    /\ pc' = "dispatch"

(* st.button("Analyze System Prompt Influence") is pressed *)
PressButton ==
    /\ pc \in {"idle", "done"}
    /\ LET in == ButtonInputs
       IN  IF ~in.go
           THEN /\ ClearRun
                /\ messages' = <<in.message>>
                /\ pc' = "done"
           ELSE IF DisplayName(provider, model).raised    \* the spinner's label
                THEN /\ ClearRun
                     /\ messages' = <<Error("main")>>
                     /\ pc' = "done"
                ELSE /\ Enter(in.system_prompt, in.conversation_log, provider, model)
                     /\ messages' = <<>>
    /\ UNCHANGED uiVars

(* the dispatcher called on its own, with any arguments *)
Invoke(system_prompt, conversation_log, selected_provider, selected_model) ==
    /\ pc = "idle"
    /\ Enter(system_prompt, conversation_log, selected_provider, selected_model)
    /\ messages' = <<>>
    /\ UNCHANGED uiVars

(* the branch on selected_provider issues the remote call *)
Dispatch ==
    /\ pc = "dispatch"
    /\ requests' = requests \o RequestsIssued(args[1].selected_provider, analysis_prompt,
                                               args[1].selected_model)
    /\ pc' = "awaiting"
    /\ UNCHANGED <<args, analysis_prompt, remote, reply, outcome, messages, displayed>>
    /\ UNCHANGED uiVars

(* the remote call ends; analyze_with_anthropic / analyze_with_openai returns *)
Respond ==
    /\ pc = "awaiting"
    /\ \E o \in RemoteOutcomes(args[1].selected_provider) :
          LET r == ProviderReply(args[1].selected_provider, o, args[1].selected_model)
          IN  /\ remote' = <<o>>
              /\ reply' = <<r>>
              /\ messages' = messages \o r.messages
    /\ pc' = "check"
    /\ UNCHANGED <<args, analysis_prompt, requests, outcome, displayed>>
    /\ UNCHANGED uiVars

(* analyze_system_prompt_influence returns *)
Return ==
    /\ pc = "check"
    /\ LET r == AnalysisResult(reply[1])
       IN  /\ outcome' = <<r>>
           /\ messages' = messages \o r.messages
    /\ pc' = "returned"
    /\ UNCHANGED <<args, analysis_prompt, requests, remote, reply, displayed>>
    /\ UNCHANGED uiVars

(* main after the call: "if influence_analysis:" shows the results; the
   except of main reports anything the call raised *)
ShowResults ==
    /\ pc = "returned"
    /\ IF outcome[1].raised
       THEN /\ messages' = Append(messages, Error("main"))
            /\ displayed' = FALSE
       ELSE /\ messages' = messages
            /\ displayed' = Truthy(outcome[1].value)
    /\ pc' = "done"
    /\ UNCHANGED <<args, analysis_prompt, requests, remote, reply, outcome>>
    /\ UNCHANGED uiVars

(* the direct caller takes the result *)
Finish ==
    /\ pc = "returned"
    /\ pc' = "idle"
    /\ ClearRun
    /\ messages' = <<>>
    /\ UNCHANGED uiVars

Uploads == {None} \cup {UploadedFile(b) : b \in FileContents}

Next ==
    \/ \E p \in Range(ProviderKeys) : SelectProvider(p)
    \/ \E m \in Range(ModelKeys(provider)) : SelectModel(m)
    \/ ToggleDirectInput
    \/ \E text \in UiTexts : EnterSystemPrompt(text)
    \/ \E text \in UiTexts : EnterConversationLog(text)
    \/ \E f \in Uploads : UploadSystemPromptFile(f)
    \/ \E f \in Uploads : UploadConversationLogFile(f)
    \/ PressButton
    \/ Dispatch
    \/ Respond
    \/ Return
    \/ ShowResults

Spec == Init /\ [][Next]_vars

(* providers and model ids a direct caller may pass: the catalog's and others *)
ProviderArgs == {"Anthropic", "OpenAI", "anthropic", "Gemini"}
ModelArgs == {"claude-3-haiku-20240307", "gpt-4o", "unlisted-model"}

NextAPI ==
    \/ \E sp \in InputTexts, cl \in InputTexts, p \in ProviderArgs, m \in ModelArgs :
            Invoke(sp, cl, p, m)
    \/ Dispatch
    \/ Respond
    \/ Return
    \/ Finish

SpecAPI == Init /\ [][NextAPI]_vars

(* ------------------------- what the claims say ------------------------ *)

Called == args # <<>>
CallIssued == pc \in {"awaiting", "check", "returned", "done"} /\ Called
HasReturned == pc \in {"returned", "done"} /\ outcome # <<>>

(* the remote call's outcome, as the claims speak of it *)
ClientRaised == remote # <<>> /\ remote[1].raises
ExtractionRaised ==
    /\ remote # <<>>
    /\ ~remote[1].raises
    /\ IF "content" \in DOMAIN remote[1]
       THEN remote[1].content = <<>>
       ELSE remote[1].choices = <<>>
RemoteFailed == ClientRaised \/ ExtractionRaised
RemoteSucceeded == remote # <<>> /\ ~RemoteFailed
(* first content block's text / first choice's message content *)
ResponseText ==
    IF "content" \in DOMAIN remote[1]
    THEN remote[1].content[1].text
    ELSE remote[1].choices[1].message.content

(* the user-role message of a request *)
UserContent(r) == r.messages[Len(r.messages)].content

(* C1: when the remote completion call fails (the client raises, or taking
   the first block / first choice raises), analyze_system_prompt_influence
   returns None and raises nothing. *)
C1_FailureReturnsNone ==
    (HasReturned /\ RemoteFailed) =>
        (~outcome[1].raised /\ outcome[1].value = None)

C1_Witness ==
    /\ pc = "returned"
    /\ ExtractionRaised
    /\ args[1].selected_provider = "Anthropic"
    /\ outcome[1].value = None

(* C2: a result that is not None carries the selected_model argument as its
   model_used, for every provider and model argument. *)
C2_ModelUsedIsArgument ==
    (HasReturned /\ ~outcome[1].raised /\ outcome[1].value # None) =>
        outcome[1].value.model_used = Str(args[1].selected_model)

C2_Witness ==
    /\ pc = "returned"
    /\ outcome[1].value # None
    /\ args[1].selected_provider = "OpenAI"
    /\ args[1].selected_model = "unlisted-model"
    /\ outcome[1].value.model_used = Str("unlisted-model")

(* C3: provider "Anthropic" issues one request, to the Anthropic client only,
   with one user message holding the rendered prompt, max_tokens 4000 and
   neither a system message nor a temperature; provider "OpenAI" issues one
   request, to the OpenAI client only, with the fixed system message followed
   by the user message holding the rendered prompt, max_tokens 4000 and
   temperature 0.2 (2 tenths).  The request's model is selected_model. *)
C3_RequestShapes ==
    CallIssued =>
        /\ args[1].selected_provider = "Anthropic" =>
              /\ Len(requests) = 1
              /\ requests[1].client = "anthropic"
              /\ DOMAIN requests[1] = {"client", "model", "max_tokens", "messages"}
              /\ requests[1].model = args[1].selected_model
              /\ requests[1].max_tokens = 4000
              /\ requests[1].messages = <<[role |-> "user", content |-> analysis_prompt]>>
        /\ args[1].selected_provider = "OpenAI" =>
              /\ Len(requests) = 1
              /\ requests[1].client = "openai"
              /\ requests[1].model = args[1].selected_model
              /\ requests[1].max_tokens = 4000
              /\ requests[1].temperature = 2
              /\ requests[1].messages =
                    <<[role |-> "system", content |-> OpenAISystemInstruction],
                      [role |-> "user", content |-> analysis_prompt]>>

C3_Witness ==
    /\ pc = "awaiting"
    /\ args[1].selected_provider = "OpenAI"
    /\ args[1].selected_model = "gpt-4o"
    /\ Len(requests[1].messages) = 2
    /\ args[1].system_prompt = <<"a", "#">>

(* C4, as the spec states it: for two non-empty input texts the prompt sent
   holds system_prompt and conversation_log verbatim, each exactly once. *)
C4_EachExactlyOnce ==
    (pc = "awaiting" /\ args[1].system_prompt # <<>> /\ args[1].conversation_log # <<>>) =>
        /\ Occurrences(args[1].system_prompt, UserContent(requests[1])) = 1
        /\ Occurrences(args[1].conversation_log, UserContent(requests[1])) = 1

(* C4, amended: for two non-empty input texts the prompt sent is the fixed
   template with system_prompt inserted once under "System Prompt:" and
   conversation_log inserted once under "Conversation Log:"; each text
   therefore occurs verbatim at least once. *)
C4_EachVerbatimAtItsPlace ==
    (pc = "awaiting" /\ args[1].system_prompt # <<>> /\ args[1].conversation_log # <<>>) =>
        LET sp == args[1].system_prompt
            cl == args[1].conversation_log
            sent == UserContent(requests[1])
            spAt == Len(TemplateHead)
            clAt == Len(TemplateHead) + Len(sp) + Len(TemplateMid)
        IN  /\ Occurrences(sp, sent) >= 1
            /\ Occurrences(cl, sent) >= 1
            /\ Len(sent) = Len(TemplateHead) + Len(TemplateMid) + Len(TemplateTail)
                              + Len(sp) + Len(cl)
            /\ SubSeq(sent, 1, spAt) = TemplateHead
            /\ SubSeq(sent, spAt + 1, spAt + Len(sp)) = sp
            /\ SubSeq(sent, spAt + Len(sp) + 1, clAt) = TemplateMid
            /\ SubSeq(sent, clAt + 1, clAt + Len(cl)) = cl
            /\ SubSeq(sent, clAt + Len(cl) + 1, Len(sent)) = TemplateTail

C4_Witness ==
    /\ pc = "awaiting"
    /\ args[1].system_prompt = <<"#", "a">>
    /\ args[1].conversation_log = <<"a", "#">>
    /\ Occurrences(<<"#", "a">>, UserContent(requests[1])) = 1
    /\ Occurrences(<<"a", "#">>, UserContent(requests[1])) = 1

(* C5: when the remote call succeeds and its response carries text t, the
   result's raw_analysis is t, for every t. *)
C5_RawAnalysisIsResponseText ==
    (HasReturned /\ RemoteSucceeded /\ ResponseText.t = "str") =>
        /\ ~outcome[1].raised
        /\ outcome[1].value # None
        /\ outcome[1].value.raw_analysis = ResponseText

(* C6: an invocation issues exactly one remote call, to one provider, and
   none is added once the call is out (no retry, no fallback). *)
C6_OneRemoteCall ==
    /\ [](Called =>
            /\ pc = "dispatch" => requests = <<>>
            /\ pc # "dispatch" => Len(requests) = 1)
    /\ [][(pc \in {"awaiting", "check"}) => (requests' = requests)]_vars

C6_Witness ==
    /\ pc = "returned"
    /\ ClientRaised
    /\ Len(requests) = 1
    /\ requests[1].client = "openai"

(* C7: a run that produces no analysis informs the user: when the dispatcher
   returns None, and when a button press ends without the results section,
   a warning or an error has been reported; and nothing is raised. *)
C7_UserInformed ==
    /\ (pc = "returned" /\ outcome[1].value = None) => messages # <<>>
    /\ (pc = "done" /\ ~displayed) => messages # <<>>
    /\ outcome # <<>> => ~outcome[1].raised

(* C8: the selections always name a provider of model_providers and a model
   of that provider, and every call main makes passes exactly them. *)
C8_ValidCombination ==
    /\ provider \in DOMAIN model_providers
    /\ model \in Range(ModelKeys(provider))
    /\ Called =>
          /\ args[1].selected_provider = provider
          /\ args[1].selected_model = model
          /\ args[1].selected_provider \in DOMAIN model_providers
          /\ args[1].selected_model \in Range(ModelKeys(args[1].selected_provider))

C8_Witness ==
    /\ pc = "awaiting"
    /\ args[1].selected_provider = "OpenAI"
    /\ args[1].selected_model = "gpt-4o-mini"
    /\ requests[1].client = "openai"

(* C9: main calls the dispatcher only with non-empty texts, in both input
   modes; with an empty text the run ends with a warning and no remote call. *)
C9_NonEmptyTexts ==
    Called =>
        /\ args[1].system_prompt # <<>>
        /\ args[1].conversation_log # <<>>

(* C10: every selected_provider other than exactly "Anthropic" is routed to
   the OpenAI two-message call with the given model; the Anthropic client is
   not called and nothing is reported about the provider. *)
C10_OtherProvidersGoToOpenAI ==
    (CallIssued /\ args[1].selected_provider # "Anthropic") =>
        /\ \A i \in DOMAIN requests : requests[i].client # "anthropic"
        /\ requests = <<OpenAIRequest(analysis_prompt, args[1].selected_model)>>
        /\ Len(requests[1].messages) = 2
        /\ pc = "awaiting" => messages = <<>>
        /\ \A i \in DOMAIN messages : messages[i] = Error("OpenAI API")

C10_Witness ==
    /\ pc = "awaiting"
    /\ args[1].selected_provider = "anthropic"
    /\ requests[1].client = "openai"
    /\ requests[1].model = "claude-3-haiku-20240307"

====
